---- MODULE Spec2Model ----
\* Verification model of src/mandelbrot.cpp: the animated Mandelbrot zoom
\* renderer (main -> computeFrame -> computeEscapeValues, computeHistogram,
\* computeCDF, colorizeImage, writeFrame).
\*
\* Number representation.
\*   * zoom is kept in the log domain.  scalePerFrame = 2^(4/(5*fps)), hence
\*     after zoomSteps multiplications zoom = 2^(4*zoomSteps/(5*fps)) and
\*     log2(zoom)*64 = 256*zoomSteps/(5*fps), an exact rational.
\*   * zoomEnd is 2^zoomEndLog.
\*   * coordinates of the complex plane are fixed point numbers with FP units
\*     per 1.0; a double division is a fixed-point division.
\*   * a cdf entry is the pair (accum, totalPixels) of the double division
\*     accum/totalPixels; 0/0 is NaN.
EXTENDS Integers, Sequences, FiniteSets, TLC

\* ------------------------------------------------------------------ bounds
MaxWidth == 3
MaxHeight == 2
MaxThreads == 2
MaxZoomEndLog == 1

\* the frame rates tried on the command line (atoi accepts every int)
FpsTried == <<1, 0, -1, -7>>

\* --------------------------------------------------------------- constants
INT_MAX == 2147483647
INT_MIN == (-INT_MAX) - 1
FP == 2 ^ 10
centerX == -761
centerY == 135
xRangeStart == 3 * FP
BaseIter == 64
MaxArgc == 5

Black == <<0, 0, 0>>
Uninit == <<-1, -1, -1>>
NoRow == -1

VARIABLES argc, width, height, fps, zoomEndLog, nThreads,
          pc, zoomSteps, frame, frameCount, maxIter,
          storeN, histPerThread, hist, cdf, image,
          team, rowsLeft, wrow, wx,
          cellWriters, histWriters, colored, cdfReads, sink

inputs == <<argc, width, height, fps, zoomEndLog, nThreads>>
pool == <<team, rowsLeft, wrow, wx>>
vars == <<argc, width, height, fps, zoomEndLog, nThreads,
          pc, zoomSteps, frame, frameCount, maxIter,
          storeN, histPerThread, hist, cdf, image,
          team, rowsLeft, wrow, wx,
          cellWriters, histWriters, colored, cdfReads, sink>>

\* ----------------------------------------------------------- arithmetic
Abs(a) == IF a < 0 THEN -a ELSE a

\* int(double): conversion truncates toward zero
TruncDiv(a, b) ==
    IF (a >= 0) = (b > 0) THEN Abs(a) \div Abs(b) ELSE -(Abs(a) \div Abs(b))

\* mathematical floor of a/b
FloorDiv(a, b) == IF b > 0 THEN a \div b ELSE (-a) \div (-b)

\* int + int on 32 bits
Add32(a, b) ==
    IF b > 0 /\ a > INT_MAX - b THEN INT_MIN + ((a - (INT_MAX - b)) - 1)
    ELSE IF b < 0 /\ a < INT_MIN - b THEN INT_MAX - (((INT_MIN - b) - a) - 1)
    ELSE a + b

\* int(+inf) is undefined: cvttsd2si yields INT_MIN, a saturating
\* conversion yields INT_MAX
IntOfInf == {INT_MIN, INT_MAX}

Cells == (0 .. height - 1) \X (0 .. width - 1)
Rows == 0 .. height - 1
EmptyFn == [c \in {} |-> 0]

\* zoom < zoomEnd for zoom = scalePerFrame^k
ZoomBelowEnd(k) ==
    IF fps = 0 THEN (k = 0 /\ 0 < zoomEndLog)
    ELSE IF fps > 0 THEN 4 * k < 5 * zoomEndLog * fps
    ELSE 4 * k > 5 * zoomEndLog * fps

\* 64 + int(log2(zoom) * 64)
MaxIterOf(k) == Add32(BaseIter, TruncDiv(256 * k, 5 * fps))

\* scale = 1.0 / zoom, in FP units
ScaleOf(k) ==
    LET num == IF fps > 0 THEN -(4 * k) ELSE 4 * k
        den == 5 * Abs(fps)
        q == num \div den
        r == num - q * den
        m == FP + (r * FP) \div den
    IN  IF q >= 0 THEN m * (2 ^ q) ELSE m \div (2 ^ (-q))

\* abs(z) <= 2.0 && n < maxIter, for the loop state s = <<zr, zi, n>>
LoopGuard(s, mI) == s[1] * s[1] + s[2] * s[2] <= 4 * FP * FP /\ s[3] < mI

\* one pass of the while loop: z = z * z + c; n++ (no change once the guard
\* is false)
Step(s, cr, ci, mI) ==
    IF LoopGuard(s, mI)
    THEN <<(s[1] * s[1] - s[2] * s[2]) \div FP + cr,
           (2 * s[1] * s[2]) \div FP + ci, s[3] + 1>>
    ELSE s

Step4(s, cr, ci, mI) ==
    Step(Step(Step(Step(s, cr, ci, mI), cr, ci, mI), cr, ci, mI), cr, ci, mI)

\* the while loop, four passes per level of recursion; the value is n
RECURSIVE Iterate(_, _, _, _)
Iterate(s, cr, ci, mI) ==
    IF LoopGuard(s, mI)
    THEN Iterate(Step4(Step4(s, cr, ci, mI), cr, ci, mI), cr, ci, mI)
    ELSE s[3]

\* the escape count of pixel (x, y) of the frame at zoom step k
EscapeN(x, y, k, mI) ==
    LET xRange == (xRangeStart * ScaleOf(k)) \div FP
        yRange == (((xRangeStart * height) \div width) * ScaleOf(k)) \div FP
        x_min == centerX - xRange \div 2
        y_min == centerY - yRange \div 2
        real == x_min + (x * xRange) \div width
        imag == y_min + (y * yRange) \div height
    IN  Iterate(<<0, 0, 0>>, real, imag, mI)

\* ------------------------------------------------------- computeHistogram
RECURSIVE SumThreads(_, _, _)
SumThreads(hpt, i, t) ==
    IF t = 0 THEN 0 ELSE SumThreads(hpt, i, t - 1) + hpt[t - 1][i]

\* a merge that stops one thread short: t < nThreads - 1
MergedThreadsShort(hpt) == Cardinality(DOMAIN hpt) - 1

\* the loop bound of the merge: t < nThreads
MergedThreads(hpt) == Cardinality(DOMAIN hpt)

computeHistogram(hpt, mI) ==
    [i \in 0 .. mI |-> SumThreads(hpt, i, MergedThreads(hpt))]

\* ------------------------------------------------------------- computeCDF
\* hist[lo] + ... + hist[hi]
RECURSIVE RangeSum(_, _, _)
RangeSum(h, lo, hi) ==
    IF lo > hi THEN 0
    ELSE IF lo = hi THEN h[lo]
    ELSE LET mid == (lo + hi) \div 2
         IN  RangeSum(h, lo, mid) + RangeSum(h, mid + 1, hi)

\* accum after the pass of the loop for index i
Accum(h, i) == RangeSum(h, 0, i)

computeCDF(h, totalPixels) ==
    LET mI == Cardinality(DOMAIN h) - 1
    IN  [i \in 0 .. mI |-> [num |-> Accum(h, i), den |-> totalPixels]]

\* comparisons of the doubles num/den; every comparison with NaN is false
IsNaN(c) == c.den = 0 /\ c.num = 0
CdfLeq(a, b) == ~IsNaN(a) /\ ~IsNaN(b) /\ a.num * b.den <= b.num * a.den
CdfIsOne(c) == ~IsNaN(c) /\ c.num = c.den
CdfInUnit(c) == ~IsNaN(c) /\ 0 <= c.num /\ c.num <= c.den

\* ---------------------------------------------------------- colorizeImage
ISqrt(q) == CHOOSE s \in 0 .. 255 : s * s <= q /\ q < (s + 1) * (s + 1)

\* int(255 * pow(v, 0.5)) for v = num/den
Intensity(c) == ISqrt((255 * 255 * c.num) \div c.den)

\* cvtColor(COLOR_HSV2BGR) of (H, S, V) = (110, 255, V): hue 220 degrees,
\* sector 3, so B = V, G = V/3 rounded, R = 0
Hsv2Bgr(V) == <<V, (V + 1) \div 3, 0>>

\* a test n > maxIter in place of n == maxIter
ColorOfWrongTest(n, c, mI) ==
    IF n > mI THEN Black ELSE Hsv2Bgr(Intensity(c[n]))

\* the colour of a pixel with escape count n
ColorOf(n, c, mI) == IF n = mI THEN Black ELSE Hsv2Bgr(Intensity(c[n]))

\* the cdf entries colorizeImage reads for a pixel with escape count n
CdfIndexRead(n, mI) == IF n = mI THEN {} ELSE {n}

\* ------------------------------------------------------------ OpenMP team
\* a team one thread larger than the number of histograms allocated
TeamSizesOver == 1 .. nThreads + 1

\* the team of a parallel region has at most omp_get_max_threads() threads
TeamSizes == 1 .. nThreads

\* a loop without worksharing: the row stays available to the other threads
AfterClaimKept(rows, y) == rows

\* omp for: an iteration handed to a thread leaves the iteration space
AfterClaim(rows, y) == rows \ {y}

\* the histogram a worker increments: histPerThread[tid]
HistIndex(tid) == tid

\* a region left as soon as every row is handed out (nowait)
BarrierNoWait == rowsLeft = {}

\* implicit barrier at the end of a parallel region
BarrierReached == rowsLeft = {} /\ \A t \in DOMAIN wrow : wrow[t] = NoRow

IdleTeam(tm) == [t \in 0 .. tm - 1 |-> NoRow]
ZeroTeam(tm) == [t \in 0 .. tm - 1 |-> 0]

\* ------------------------------------------------------------------- Init
Init ==
    /\ argc \in {MaxArgc, MaxArgc + 1}
    /\ \E i \in 0 .. MaxWidth + 1 : width = MaxWidth - i
    /\ \E i \in 0 .. MaxHeight + 1 : height = MaxHeight - i
    /\ \E i \in DOMAIN FpsTried : fps = FpsTried[i]
    /\ zoomEndLog \in (-1) .. MaxZoomEndLog
    /\ nThreads \in 1 .. MaxThreads
    /\ pc = "main"
    /\ zoomSteps = 0
    /\ frame = 0
    /\ frameCount = 0
    /\ maxIter = 0
    /\ storeN = EmptyFn
    /\ histPerThread = EmptyFn
    /\ hist = EmptyFn
    /\ cdf = EmptyFn
    /\ image = EmptyFn
    /\ team = 0
    /\ rowsLeft = {}
    /\ wrow = EmptyFn
    /\ wx = EmptyFn
    /\ cellWriters = EmptyFn
    /\ histWriters = EmptyFn
    /\ colored = {}
    /\ cdfReads = {}
    /\ sink = <<>>

frameState == <<maxIter, storeN, histPerThread, hist, cdf,
                cellWriters, histWriters, colored, cdfReads>>

\* ------------------------------------------------------------------- main
\* more than 4 positional arguments: usage message, exit(1)
Usage ==
    /\ pc = "main"
    /\ argc > MaxArgc
    /\ pc' = "usage"
    /\ UNCHANGED <<inputs, zoomSteps, frame, frameCount, frameState, image,
                   pool, sink>>

\* cv::Mat image(height, width, CV_8UC3) rejects a negative dimension
MainSetupThrows ==
    /\ pc = "main"
    /\ argc <= MaxArgc
    /\ (width < 0 \/ height < 0)
    /\ pc' = "aborted"
    /\ UNCHANGED <<inputs, zoomSteps, frame, frameCount, frameState, image,
                   pool, sink>>

MainSetup ==
    /\ pc = "main"
    /\ argc <= MaxArgc
    /\ width >= 0 /\ height >= 0
    /\ image' = [c \in Cells |-> Uninit]
    /\ pc' = "loop"
    /\ UNCHANGED <<inputs, zoomSteps, frame, frameCount, frameState,
                   pool, sink>>

\* while (zoom < zoomEnd) is false
LoopExit ==
    /\ pc = "loop"
    /\ ~ZoomBelowEnd(zoomSteps)
    /\ pc' = "done"
    /\ UNCHANGED <<inputs, zoomSteps, frame, frameCount, frameState, image,
                   pool, sink>>

\* the values 64 + int(log2(zoom) * 64) can take for the next frame
NextMaxIter(k) ==
    IF fps = 0 THEN {Add32(BaseIter, v) : v \in IntOfInf} ELSE {MaxIterOf(k)}

\* zoom *= scalePerFrame; computeFrame up to the vector constructors, which
\* throw std::length_error on a negative length
BeginFrameThrows ==
    /\ pc = "loop"
    /\ ZoomBelowEnd(zoomSteps)
    /\ \E mI \in NextMaxIter(zoomSteps + 1) :
          /\ mI + 1 < 0
          /\ maxIter' = mI
    /\ zoomSteps' = zoomSteps + 1
    /\ pc' = "aborted"
    /\ UNCHANGED <<inputs, frame, frameCount, storeN, histPerThread, hist,
                   cdf, cellWriters, histWriters, colored, cdfReads, image,
                   pool, sink>>

\* zoom *= scalePerFrame; computeFrame up to the start of the parallel
\* region of computeEscapeValues
BeginFrame ==
    /\ pc = "loop"
    /\ ZoomBelowEnd(zoomSteps)
    /\ \E mI \in NextMaxIter(zoomSteps + 1) :
          /\ mI + 1 >= 0
          /\ maxIter' = mI
          /\ histPerThread' = [t \in 0 .. nThreads - 1 |-> [i \in 0 .. mI |-> 0]]
    /\ zoomSteps' = zoomSteps + 1
    /\ storeN' = [c \in Cells |-> 0]
    /\ hist' = EmptyFn
    /\ cdf' = EmptyFn
    /\ cellWriters' = [c \in Cells |-> {}]
    /\ histWriters' = [t \in 0 .. nThreads - 1 |-> {}]
    /\ colored' = {}
    /\ cdfReads' = {}
    /\ \E tm \in TeamSizes :
          /\ team' = tm
          /\ wrow' = IdleTeam(tm)
          /\ wx' = ZeroTeam(tm)
    /\ rowsLeft' = Rows
    /\ pc' = "escape"
    /\ UNCHANGED <<inputs, frame, frameCount, image, sink>>

\* ---------------------------------------------------- computeEscapeValues
\* #pragma omp for: worker t takes row y of the iteration space
EscapeClaimRow(t) ==
    /\ pc = "escape"
    /\ wrow[t] = NoRow
    /\ \E y \in rowsLeft :
          /\ rowsLeft' = AfterClaim(rowsLeft, y)
          /\ wrow' = IF width > 0 THEN [wrow EXCEPT ![t] = y] ELSE wrow
          /\ wx' = [wx EXCEPT ![t] = 0]
    /\ UNCHANGED <<inputs, pc, zoomSteps, frame, frameCount, frameState,
                   image, team, sink>>

\* the body of the inner loop for one pixel: iterate, storeN[y][x] = n,
\* localHist[n]++.  With n outside the histogram the histogram has length 0
\* (maxIter = -1), its data pointer is null and the increment faults.
EscapePixel(t) ==
    /\ pc = "escape"
    /\ wrow[t] # NoRow
    /\ LET y == wrow[t]
           x == wx[t]
       IN  \E n \in {EscapeN(x, y, zoomSteps, maxIter)} :
              /\ storeN' = [storeN EXCEPT ![<<y, x>>] = n]
              /\ cellWriters' = [cellWriters EXCEPT ![<<y, x>>] = @ \cup {t}]
              /\ IF n \in 0 .. maxIter
                 THEN /\ histPerThread' =
                            [histPerThread EXCEPT ![HistIndex(t)][n] = @ + 1]
                      /\ histWriters' =
                            [histWriters EXCEPT ![HistIndex(t)] = @ \cup {t}]
                      /\ wx' = [wx EXCEPT ![t] = IF x + 1 < width THEN x + 1 ELSE 0]
                      /\ wrow' = IF x + 1 < width THEN wrow
                                 ELSE [wrow EXCEPT ![t] = NoRow]
                      /\ pc' = pc
                 ELSE /\ pc' = "crashed"
                      /\ UNCHANGED <<histPerThread, histWriters, wx, wrow>>
    /\ UNCHANGED <<inputs, zoomSteps, frame, frameCount, maxIter, hist,
                   cdf, colored, cdfReads, image, team, rowsLeft, sink>>

\* end of the parallel region: computeEscapeValues returns
EscapeBarrier ==
    /\ pc = "escape"
    /\ BarrierReached
    /\ pc' = "merge"
    /\ UNCHANGED <<inputs, zoomSteps, frame, frameCount, frameState, image,
                   pool, sink>>

\* ----------------------------------------------------------- computeFrame
\* vector<int> hist = computeHistogram(histPerThread, maxIter)
Merge ==
    /\ pc = "merge"
    /\ hist' = computeHistogram(histPerThread, maxIter)
    /\ pc' = "cdf"
    /\ UNCHANGED <<inputs, zoomSteps, frame, frameCount, maxIter, storeN,
                   histPerThread, cdf, cellWriters, histWriters, colored,
                   cdfReads, image, pool, sink>>

\* vector<double> cdf = computeCDF(hist, long(width) * height); then the
\* parallel for of colorizeImage starts.  histPerThread is never read again:
\* the model forgets it, and the record of who wrote what, from here on.
Cdf ==
    /\ pc = "cdf"
    /\ cdf' = computeCDF(hist, width * height)
    /\ \E tm \in TeamSizes :
          /\ team' = tm
          /\ wrow' = IdleTeam(tm)
          /\ wx' = ZeroTeam(tm)
    /\ rowsLeft' = Rows
    /\ histPerThread' = EmptyFn
    /\ cellWriters' = EmptyFn
    /\ histWriters' = EmptyFn
    /\ pc' = "color"
    /\ UNCHANGED <<inputs, zoomSteps, frame, frameCount, maxIter, storeN,
                   hist, colored, cdfReads, image, sink>>

\* ---------------------------------------------------------- colorizeImage
ColorClaimRow(t) ==
    /\ pc = "color"
    /\ wrow[t] = NoRow
    /\ \E y \in rowsLeft :
          /\ rowsLeft' = AfterClaim(rowsLeft, y)
          /\ wrow' = IF width > 0 THEN [wrow EXCEPT ![t] = y] ELSE wrow
          /\ wx' = [wx EXCEPT ![t] = 0]
    /\ UNCHANGED <<inputs, pc, zoomSteps, frame, frameCount, frameState,
                   image, team, sink>>

ColorPixel(t) ==
    /\ pc = "color"
    /\ wrow[t] # NoRow
    /\ LET y == wrow[t]
           x == wx[t]
           n == storeN[<<y, x>>]
       IN  /\ image' = [image EXCEPT ![<<y, x>>] = ColorOf(n, cdf, maxIter)]
           /\ cdfReads' = cdfReads \cup CdfIndexRead(n, maxIter)
           /\ colored' = colored \cup {<<y, x>>}
           /\ wx' = [wx EXCEPT ![t] = IF x + 1 < width THEN x + 1 ELSE 0]
           /\ wrow' = IF x + 1 < width THEN wrow ELSE [wrow EXCEPT ![t] = NoRow]
    /\ UNCHANGED <<inputs, pc, zoomSteps, frame, frameCount, maxIter, storeN,
                   histPerThread, hist, cdf, cellWriters, histWriters, team,
                   rowsLeft, sink>>

\* end of the parallel for: colorizeImage returns
ColorBarrier ==
    /\ pc = "color"
    /\ BarrierReached
    /\ pc' = "write"
    /\ UNCHANGED <<inputs, zoomSteps, frame, frameCount, frameState, image,
                   pool, sink>>

\* ------------------------------------------------------------- writeFrame
\* computeFrame returns: its vectors are destroyed
LocalsDestroyed ==
    /\ storeN' = EmptyFn
    /\ histPerThread' = EmptyFn
    /\ hist' = EmptyFn
    /\ cdf' = EmptyFn
    /\ cellWriters' = EmptyFn
    /\ histWriters' = EmptyFn
    /\ colored' = {}
    /\ cdfReads' = {}

\* writeFrame(image, frameCount); frameCount++; back in main: frame++
WriteFrame ==
    /\ pc = "write"
    /\ Cells # {}
    /\ sink' = Append(sink, [index |-> frameCount, zoomSteps |-> zoomSteps,
                             maxIter |-> maxIter, pixels |-> image])
    /\ frameCount' = frameCount + 1
    /\ frame' = frame + 1
    /\ LocalsDestroyed
    /\ pc' = "loop"
    /\ UNCHANGED <<inputs, zoomSteps, maxIter, image, pool>>

\* imwrite of an empty image: cv::imwrite asserts !img.empty() and throws
WriteFrameThrows ==
    /\ pc = "write"
    /\ Cells = {}
    /\ pc' = "aborted"
    /\ UNCHANGED <<inputs, zoomSteps, frame, frameCount, frameState, image,
                   pool, sink>>

\* imwrite of an empty image in a build where it only returns false: no
\* file is written, the return value is ignored
WriteFrameSkipped ==
    /\ pc = "write"
    /\ Cells = {}
    /\ frameCount' = frameCount + 1
    /\ frame' = frame + 1
    /\ LocalsDestroyed
    /\ pc' = "loop"
    /\ UNCHANGED <<inputs, zoomSteps, maxIter, image, pool, sink>>

\* ------------------------------------------------------------------- Next
Next ==
    \/ Usage
    \/ MainSetupThrows
    \/ MainSetup
    \/ LoopExit
    \/ BeginFrameThrows
    \/ BeginFrame
    \/ \E t \in DOMAIN wrow : EscapeClaimRow(t)
    \/ \E t \in DOMAIN wrow : EscapePixel(t)
    \/ EscapeBarrier
    \/ Merge
    \/ Cdf
    \/ \E t \in DOMAIN wrow : ColorClaimRow(t)
    \/ \E t \in DOMAIN wrow : ColorPixel(t)
    \/ ColorBarrier
    \/ WriteFrame
    \/ WriteFrameThrows
    \/ WriteFrameSkipped

Spec == Init /\ [][Next]_vars

\* ================================================================ claims
InFrame == pc \in {"escape", "merge", "cdf", "color", "write"}
Merged == pc \in {"cdf", "color", "write"}
Written(c) == cellWriters[c] # {}

\* the escape field and the histogram of a frame as functions of the
\* viewport, width, height and maxIter alone
SeqField == [c \in Cells |-> EscapeN(c[2], c[1], zoomSteps, maxIter)]
HistOf(f) == [i \in 0 .. maxIter |-> Cardinality({c \in DOMAIN f : f[c] = i})]

\* C1: once computeHistogram has merged the per-thread histograms of a
\* frame, the merged histogram has indices 0..maxIter and its entries sum to
\* width*height, whatever the team size and the assignment of rows.
C1_HistogramSum ==
    Merged => /\ DOMAIN hist = 0 .. maxIter
              /\ RangeSum(hist, 0, maxIter) = width * height

\* a merged histogram to which two workers contributed
C1_Witness ==
    /\ pc = "cdf"
    /\ team = 2
    /\ RangeSum(hist, 0, maxIter) = width * height
    /\ \A t \in 0 .. 1 : histWriters[t] = {t}
    /\ width * height >= 2

\* C2: the escape field and the merged histogram of a frame are the same
\* for every team size, row assignment and interleaving: they equal the
\* field and histogram determined by the inputs of the frame alone.
C2_Deterministic ==
    pc = "cdf" => LET f == SeqField
              IN  /\ storeN = f
                  /\ hist = HistOf(f)

\* a frame whose rows were computed by two different workers
C2_Witness ==
    /\ pc = "cdf"
    /\ hist = HistOf(storeN)
    /\ \E c \in Cells : \E d \in Cells : cellWriters[c] = {0} /\ cellWriters[d] = {1}
    /\ \E c \in Cells : \E d \in Cells : storeN[c] # storeN[d]

\* C3: every value n stored in the field satisfies 0 <= n <= maxIter, and
\* the bucket incremented for it is a valid index of the worker's histogram
\* (no increment falls outside the histogram).
C3_EscapeInRange ==
    /\ pc # "crashed"
    /\ \A c \in DOMAIN cellWriters :
          Written(c) => (0 <= storeN[c] /\ storeN[c] <= maxIter)

\* C4: the array returned by computeCDF has length maxIter+1, is
\* non-decreasing with every value in [0,1], and ends at 1.0.
C4_CdfShape ==
    pc \in {"color", "write"} =>
        /\ DOMAIN cdf = 0 .. maxIter
        /\ \A i \in DOMAIN cdf : CdfInUnit(cdf[i])
        /\ \A i \in DOMAIN cdf : \A j \in DOMAIN cdf :
              i <= j => CdfLeq(cdf[i], cdf[j])
        /\ maxIter \in DOMAIN cdf
        /\ CdfIsOne(cdf[maxIter])

\* C5: every coloured pixel whose escape value equals maxIter is exactly
\* (0,0,0), and the cdf is read only at indices n with 0 <= n < maxIter.
C5_InteriorBlack ==
    /\ \A c \in colored : storeN[c] = maxIter => image[c] = Black
    /\ \A n \in cdfReads : 0 <= n /\ n < maxIter

\* a frame with a coloured interior pixel and a coloured escaping pixel
C5_Witness ==
    /\ \E c \in colored : storeN[c] = maxIter /\ image[c] = Black
    /\ \E c \in colored : storeN[c] < maxIter /\ image[c] # Black
    /\ cdfReads # {}

\* C6: the k-th emitted frame has zoom scalePerFrame^k (zoom starts at 1 and
\* is multiplied before the frame is generated); every emitted frame but the
\* last has zoom < zoomEnd; once the program has stopped after emitting
\* frames, it stopped by leaving the loop and the last emitted frame has
\* zoom >= zoomEnd.
C6_ZoomProgression ==
    /\ \A i \in 1 .. Len(sink) : sink[i].zoomSteps = i
    /\ \A i \in 1 .. Len(sink) - 1 : ZoomBelowEnd(sink[i].zoomSteps)
    /\ (pc \in {"done", "aborted", "crashed"} /\ sink # <<>>) =>
          /\ pc = "done"
          /\ ~ZoomBelowEnd(sink[Len(sink)].zoomSteps)

\* C7: computeFrame is only reached with totalPixels = width*height > 0.
C7_DimensionsValidated == InFrame => width * height > 0

\* C8: in every frame maxIter = 64 + floor(log2(zoom) * 64) and
\* maxIter >= 64; over the emitted frames maxIter is non-decreasing.
C8_MaxIter ==
    /\ InFrame => /\ maxIter = BaseIter + FloorDiv(256 * zoomSteps, 5 * fps)
                  /\ maxIter >= BaseIter
    /\ \A i \in 1 .. Len(sink) : \A j \in 1 .. Len(sink) :
          i <= j => sink[i].maxIter <= sink[j].maxIter

\* C9: in the escape-field phase each cell is written by at most one worker
\* (by exactly one once the phase is over), each per-thread histogram is
\* incremented only by the worker of that index, and every worker's tid is
\* an index of an allocated per-thread histogram.
C9_DisjointWrites ==
    /\ \A c \in DOMAIN cellWriters : Cardinality(cellWriters[c]) <= 1
    /\ (pc \in {"merge", "cdf"}) =>
          \A c \in Cells : Cardinality(cellWriters[c]) = 1
    /\ \A t \in DOMAIN histWriters : histWriters[t] \subseteq {t}
    /\ pc = "escape" => \A t \in DOMAIN wrow : t \in DOMAIN histPerThread

\* two workers in the middle of the phase, each having written its own cell
\* and its own histogram
C9_Witness ==
    /\ pc = "escape"
    /\ team = 2
    /\ \E c \in Cells : cellWriters[c] = {0}
    /\ \E c \in Cells : cellWriters[c] = {1}
    /\ histWriters[0] = {0}
    /\ histWriters[1] = {1}

\* C10: merging starts only after every worker finished the escape phase;
\* the cdf is computed from the complete merged histogram; a pixel is
\* coloured only when the complete cdf exists; the frame is written only
\* after every pixel is coloured; while frame k+1 is computed, frames 1..k
\* have been handed to writeFrame.
C10_PhaseOrder ==
    /\ (pc \in {"merge", "cdf"}) =>
          /\ \A c \in Cells : Written(c)
          /\ BarrierReached
    /\ (pc \in {"color", "write"}) =>
          /\ DOMAIN hist = 0 .. maxIter
          /\ DOMAIN cdf = 0 .. maxIter
          /\ maxIter >= 0 => cdf[maxIter].num = width * height
    /\ colored # {} => DOMAIN cdf = 0 .. maxIter
    /\ (colored # {} /\ InFrame) => pc \in {"color", "write"}
    /\ pc = "write" => colored = Cells
    /\ \A i \in 1 .. Len(sink) :
          \A c \in DOMAIN sink[i].pixels : sink[i].pixels[c] # Uninit
    /\ InFrame => /\ frameCount = zoomSteps - 1
                  /\ frame = frameCount
                  /\ (Cells # {} => Len(sink) = zoomSteps - 1)

\* the second frame of a run, coloured by two workers, about to be written
C10_Witness ==
    /\ pc = "write"
    /\ Len(sink) = 1
    /\ team = 2
    /\ height >= 2

====
